---- MODULE Spec2Model ----
(***************************************************************************)
(* Model of the MongoDB -> Lambda pipeline test, test_mongodb_pipeline.py:  *)
(* its completion-polling loop monitor_results (Spec, FairSpec), two       *)
(* concurrent calls of it (TwoSpec), and main with the Lambda behind the   *)
(* trigger (MainSpec, PipelineSpec); and of the services around it:        *)
(* lambda_handler (LambdaSpec), the API server's /predict and /stats       *)
(* (ApiSpec) and main of the setup script (SetupSpec).                     *)
(*                                                                         *)
(* A watch session is one call of monitor_results(results_collection,      *)
(* expected_count, timeout).  The result store (the sentiment_analysis     *)
(* collection) is shared with other writers, which insert and delete       *)
(* records while the session runs.  Time is a discrete wall clock `now`;   *)
(* a count query takes 0..MaxLatency ticks and time.sleep(2) takes         *)
(* PollInterval ticks.                                                     *)
(*                                                                         *)
(* Outcomes: return True is kind "Completed", return False is kind         *)
(* "TimedOut", an exception leaving monitor_results is kind "Raised" with  *)
(* the exception as its cause.                                             *)
(***************************************************************************)
EXTENDS Integers, Sequences, FiniteSets, Bags, TLC

\* ---- bounds of the model ----
MaxCount == 3
MaxTimeout == 4
MaxLatency == 2
MaxExpected == 2
NumDocs == 2
MaxInvocations == 3
MaxReviewLen == 2

\* ---- program constant: time.sleep(2) ----
PollInterval == 2

\* expected_count is an unchecked int parameter; timeout an unchecked number
ExpectedCounts == (0 - 1)..MaxExpected
Timeouts == 0..MaxTimeout

VARIABLES
    results_count,      \* the store: results_collection.count_documents({})
    now,                \* the wall clock, time.time()
    expected_count,     \* parameter of monitor_results
    timeout,            \* parameter of monitor_results
    pc,                 \* position in monitor_results
    start_time,         \* local start_time
    initial_count,      \* local initial_count (the session baseline)
    current_count,      \* local current_count
    new_results,        \* local new_results
    new_results_bound,  \* whether the local new_results has been assigned
    outcome,            \* how the call ended
    queries_ok,         \* history: count queries that returned
    queries_failed,     \* history: count queries that raised
    sleeps,             \* history: time.sleep(2) calls executed
    observed,           \* history: a poll read a count >= baseline + expected
    reached,            \* history: the store was at baseline + expected in the session
    repeat_polls,       \* history: polls that read the same count as the poll before
    cancelled,          \* the caller has signalled cancellation
    own_results,        \* history: records the Lambda stored since the baseline
    foreign_results,    \* history: records unrelated writers stored since the baseline
    deleted,            \* history: a record was deleted since the baseline
    other,              \* the locals of a second, concurrent call of monitor_results
    main_pc,            \* position in main of the pipeline test
    client_bound,       \* main's local `client` is assigned
    clients_open,       \* MongoClient objects of the test process not yet closed
    review_i,           \* main's loop index i
    insert_log,         \* history: the reviews insert_one was called for, in call order
    test_review_ids,    \* main's list test_review_ids (by review number)
    initial_results,    \* main's local initial_results
    final_results,      \* main's local final_results
    report,             \* the verdict main prints
    pending,            \* inserted reviews whose trigger has not run the Lambda yet
    lambda_clients_open,\* MongoClient objects Lambda invocations left open
    incoming_count,     \* incoming_collection.count_documents({})
    initial_incoming,   \* main's local initial_incoming
    result_records,     \* the records of the sentiment_analysis collection
    incoming_docs,      \* the documents of the incoming_reviews collection
    mongodb_uri_set,    \* the Lambda's environment has MONGODB_URI
    lambda_event,       \* the event of the latest lambda_handler invocation
    lambda_fault,       \* what failed in the latest invocation
    lambda_status,      \* statusCode the latest invocation returned
    lambda_calls,       \* history: invocations of lambda_handler so far
    model_loaded,       \* the API server's globals model and tokenizer are set
    api_request,        \* review text of the latest /predict request
    api_fault,          \* what failed in the latest API request
    api_response,       \* the latest API response
    setup_pc,           \* position in main of the setup script
    setup_env,          \* what the setup script finds on the machine
    mlflow_process,     \* the setup script's local mlflow_process
    api_process,        \* the setup script's local api_process
    exit_code           \* how the setup script ended

vars == <<results_count, now, expected_count, timeout, pc, start_time,
          initial_count, current_count, new_results, new_results_bound,
          outcome, queries_ok, queries_failed, sleeps, observed, reached,
          repeat_polls, cancelled, own_results, foreign_results, deleted,
          other, main_pc, client_bound, clients_open, review_i, insert_log,
          test_review_ids, initial_results, final_results, report, pending,
          lambda_clients_open, incoming_count, initial_incoming,
          result_records, incoming_docs, mongodb_uri_set, lambda_event,
          lambda_fault, lambda_status, lambda_calls, model_loaded,
          api_request, api_fault, api_response, setup_pc, setup_env,
          mlflow_process, api_process, exit_code>>

\* the Lambda handler, the API server and the setup script
serviceVars == <<result_records, incoming_docs, mongodb_uri_set, lambda_event,
                 lambda_fault, lambda_status, lambda_calls, model_loaded,
                 api_request, api_fault, api_response, setup_pc, setup_env,
                 mlflow_process, api_process, exit_code>>

\* identifiers of documents of incoming_reviews; 0 stands for a missing key
DocIds == 1..NumDocs

\* everything but the second call's locals
firstVars == <<results_count, now, expected_count, timeout, pc, start_time,
               initial_count, current_count, new_results, new_results_bound,
               outcome, queries_ok, queries_failed, sleeps, observed, reached,
               repeat_polls, cancelled, own_results, foreign_results, deleted>>

\* main of the pipeline test and the Lambda behind the trigger
mainVars == <<main_pc, client_bound, clients_open, review_i, insert_log,
              test_review_ids, initial_results, final_results, report,
              pending, lambda_clients_open, incoming_count, initial_incoming>>

\* what lies outside one call of monitor_results and the store
outerVars == <<other, main_pc, client_bound, clients_open, review_i,
               insert_log, test_review_ids, initial_results, final_results,
               report, pending, lambda_clients_open, incoming_count,
               initial_incoming, serviceVars>>

\* positions of a call at which initial_count is not yet assigned
PreBaseline == {"idle", "start", "initial_count"}

\* main is not running
MainIdle ==
    /\ main_pc = "none"
    /\ client_bound = FALSE
    /\ clients_open = 0
    /\ review_i = 0
    /\ insert_log = <<>>
    /\ test_review_ids = <<>>
    /\ initial_results = 0
    /\ final_results = 0
    /\ report = "none"
    /\ pending = 0
    /\ lambda_clients_open = 0
    /\ incoming_count = 0
    /\ initial_incoming = 0

\* an identifier not in incoming_reviews, and a freshly inserted review:
\* review.get('processed'), .get('sentiment_result'), .get('error') find
\* nothing
NoDoc == [present |-> FALSE, processed |-> FALSE, sentiment_result |-> "none",
          error |-> "none"]
NewDoc == [present |-> TRUE, processed |-> FALSE, sentiment_result |-> "none",
           error |-> "none"]

\* an EventBridge event: event['detail'] and detail['fullDocument'] may be
\* missing
Events == [detail : {TRUE}, fullDocument : DocIds \cup {0}]
              \cup {[detail |-> FALSE, fullDocument |-> 0]}
NoEvent == [detail |-> FALSE, fullDocument |-> 0]

\* no API request has been answered
NoResponse == [endpoint |-> "none", status |-> 0, total_reviews |-> 0,
               positive_percentage |-> 0, average_confidence |-> 0]

\* a machine on which every step of the setup script succeeds
GoodEnv == [dependencies |-> TRUE, mongodb |-> TRUE, mlflow |-> TRUE,
            model |-> TRUE, mlflow_popen |-> TRUE, api_popen |-> TRUE]

\* the Lambda, the API server and the setup script are not running
ServicesIdle ==
    /\ result_records = EmptyBag
    /\ incoming_docs = [d \in DocIds |-> NoDoc]
    /\ mongodb_uri_set = TRUE
    /\ lambda_event = NoEvent
    /\ lambda_fault = "none"
    /\ lambda_status = 0
    /\ lambda_calls = 0
    /\ model_loaded = FALSE
    /\ api_request = <<>>
    /\ api_fault = "none"
    /\ api_response = NoResponse
    /\ setup_pc = "none"
    /\ setup_env = GoodEnv
    /\ mlflow_process = "None"
    /\ api_process = "None"
    /\ exit_code = "none"

\* what no statement of monitor_results reads or writes
originVars == <<own_results, foreign_results, deleted>>

Running == [kind |-> "Running", count |-> 0, cause |-> "none"]
Completed(n) == [kind |-> "Completed", count |-> n, cause |-> "none"]
TimedOut(n) == [kind |-> "TimedOut", count |-> n, cause |-> "none"]
Raised(c) == [kind |-> "Raised", count |-> 0, cause |-> c]

\* time.time() - start_time
Elapsed == now - start_time

\* time.time() - start_time < timeout
BeforeDeadlineMut(elapsed, t) == elapsed <= t
BeforeDeadlineByPolls(elapsed, t) == (queries_ok - 1) * PollInterval < t
BeforeDeadline(elapsed, t) == elapsed < t

\* new_results = current_count - initial_count
NewResultsMut(cur, init) == init - cur
NewResults(cur, init) == cur - init

\* if new_results >= expected_count
IsDoneMut(n, expected) == n > expected
IsDone(n, expected) == n >= expected

\* the locals of a call: not started, and at its first statement
NoSession ==
    [pc |-> "none", expected_count |-> 0, initial_count |-> 0,
     current_count |-> 0, new_results |-> 0, new_results_bound |-> FALSE,
     outcome |-> Running]
NewSession(expected) ==
    [pc |-> "start", expected_count |-> expected, initial_count |-> 0,
     current_count |-> 0, new_results |-> 0, new_results_bound |-> FALSE,
     outcome |-> Running]

Init ==
    /\ results_count \in 0..MaxCount
    /\ now = 0
    /\ expected_count \in ExpectedCounts
    /\ timeout \in Timeouts
    /\ pc = "start"
    /\ start_time = 0
    /\ initial_count = 0
    /\ current_count = 0
    /\ new_results = 0
    /\ new_results_bound = FALSE
    /\ outcome = Running
    /\ queries_ok = 0
    /\ queries_failed = 0
    /\ sleeps = 0
    /\ observed = FALSE
    /\ reached = FALSE
    /\ repeat_polls = 0
    /\ cancelled = FALSE
    /\ own_results = 0
    /\ foreign_results = 0
    /\ deleted = FALSE
    /\ other = NoSession
    /\ MainIdle
    /\ ServicesIdle

\* start_time = time.time()
StartSession ==
    /\ pc = "start"
    /\ start_time' = now
    /\ pc' = "initial_count"
    /\ UNCHANGED <<results_count, now, expected_count, timeout, initial_count,
                   current_count, new_results, new_results_bound, outcome,
                   queries_ok, queries_failed, sleeps, observed, reached>>
    /\ UNCHANGED <<repeat_polls, cancelled>>
    /\ UNCHANGED originVars
    /\ UNCHANGED outerVars

\* initial_count = results_collection.count_documents({}), the query returns
InitialCount ==
    /\ pc = "initial_count"
    /\ \E d \in 0..MaxLatency : now' = now + d
    /\ initial_count' = results_count
    /\ queries_ok' = queries_ok + 1
    /\ reached' = (results_count >= results_count + expected_count)
    /\ pc' = "check"
    /\ UNCHANGED <<results_count, expected_count, timeout, start_time,
                   current_count, new_results, new_results_bound, outcome,
                   queries_failed, sleeps, observed>>
    /\ UNCHANGED <<repeat_polls, cancelled>>
    /\ UNCHANGED originVars
    /\ UNCHANGED outerVars

\* initial_count = results_collection.count_documents({}), the query raises:
\* nothing in monitor_results catches it
InitialCountFailsSwallowed ==
    /\ pc = "initial_count"
    /\ \E d \in 0..MaxLatency : now' = now + d
    /\ queries_failed' = queries_failed + 1
    /\ initial_count' = 0
    /\ pc' = "check"
    /\ UNCHANGED <<results_count, expected_count, timeout, start_time,
                   current_count, new_results, new_results_bound, outcome,
                   queries_ok, sleeps, observed, reached>>
    /\ UNCHANGED <<repeat_polls, cancelled>>
    /\ UNCHANGED originVars
    /\ UNCHANGED outerVars

InitialCountFails ==
    /\ pc = "initial_count"
    /\ \E d \in 0..MaxLatency : now' = now + d
    /\ queries_failed' = queries_failed + 1
    /\ outcome' = Raised("StoreQueryError")
    /\ pc' = "done"
    /\ UNCHANGED <<results_count, expected_count, timeout, start_time,
                   initial_count, current_count, new_results,
                   new_results_bound, queries_ok, sleeps, observed, reached>>
    /\ UNCHANGED <<repeat_polls, cancelled>>
    /\ UNCHANGED originVars
    /\ UNCHANGED outerVars

\* while time.time() - start_time < timeout: the condition holds
LoopContinue ==
    /\ pc = "check"
    /\ BeforeDeadline(Elapsed, timeout)
    /\ pc' = "poll"
    /\ UNCHANGED <<results_count, now, expected_count, timeout, start_time,
                   initial_count, current_count, new_results,
                   new_results_bound, outcome, queries_ok, queries_failed,
                   sleeps, observed, reached>>
    /\ UNCHANGED <<repeat_polls, cancelled>>
    /\ UNCHANGED originVars
    /\ UNCHANGED outerVars

\* the loop body up to the sleep: count, subtract, compare, return True
PollResetsBaseline ==
    /\ pc = "poll"
    /\ \E d \in 0..MaxLatency : now' = now + d
    /\ current_count' = results_count
    /\ initial_count' = IF results_count < initial_count THEN results_count
                        ELSE initial_count
    /\ new_results' = NewResults(results_count, initial_count)
    /\ new_results_bound' = TRUE
    /\ queries_ok' = queries_ok + 1
    /\ observed' = (observed \/ results_count - initial_count >= expected_count)
    /\ IF IsDone(new_results', expected_count)
          THEN /\ outcome' = Completed(expected_count)
               /\ pc' = "done"
          ELSE /\ outcome' = outcome
               /\ pc' = "sleep"
    /\ UNCHANGED <<results_count, expected_count, timeout, start_time,
                   queries_failed, sleeps, reached>>
    /\ repeat_polls' = IF new_results_bound /\ results_count = current_count
                       THEN repeat_polls + 1 ELSE repeat_polls
    /\ UNCHANGED cancelled
    /\ UNCHANGED originVars
    /\ UNCHANGED outerVars

PollReportsNewResults ==
    /\ pc = "poll"
    /\ \E d \in 0..MaxLatency : now' = now + d
    /\ current_count' = results_count
    /\ new_results' = NewResults(results_count, initial_count)
    /\ new_results_bound' = TRUE
    /\ queries_ok' = queries_ok + 1
    /\ observed' = (observed \/ results_count - initial_count >= expected_count)
    /\ IF IsDone(new_results', expected_count)
          THEN /\ outcome' = Completed(new_results')
               /\ pc' = "done"
          ELSE /\ outcome' = outcome
               /\ pc' = "sleep"
    /\ UNCHANGED <<results_count, expected_count, timeout, start_time,
                   initial_count, queries_failed, sleeps, reached>>
    /\ repeat_polls' = IF new_results_bound /\ results_count = current_count
                       THEN repeat_polls + 1 ELSE repeat_polls
    /\ UNCHANGED cancelled
    /\ UNCHANGED originVars
    /\ UNCHANGED outerVars

PollConsumes ==
    /\ pc = "poll"
    /\ \E d \in 0..MaxLatency : now' = now + d
    /\ current_count' = results_count
    /\ new_results' = NewResults(results_count, initial_count)
    /\ new_results_bound' = TRUE
    /\ queries_ok' = queries_ok + 1
    /\ observed' = (observed \/ results_count - initial_count >= expected_count)
    /\ IF IsDone(new_results', expected_count)
          THEN /\ outcome' = Completed(expected_count)
               /\ pc' = "done"
          ELSE /\ outcome' = outcome
               /\ pc' = "sleep"
    /\ results_count' = 0
    /\ UNCHANGED <<expected_count, timeout, start_time,
                   initial_count, queries_failed, sleeps, reached>>
    /\ repeat_polls' = IF new_results_bound /\ results_count = current_count
                       THEN repeat_polls + 1 ELSE repeat_polls
    /\ UNCHANGED cancelled
    /\ UNCHANGED originVars
    /\ UNCHANGED outerVars

PollCountsOwnOnly ==
    /\ pc = "poll"
    /\ \E d \in 0..MaxLatency : now' = now + d
    /\ current_count' = results_count
    /\ new_results' = NewResults(results_count, initial_count) - foreign_results
    /\ new_results_bound' = TRUE
    /\ queries_ok' = queries_ok + 1
    /\ observed' = (observed \/ results_count - initial_count >= expected_count)
    /\ IF IsDone(new_results', expected_count)
          THEN /\ outcome' = Completed(expected_count)
               /\ pc' = "done"
          ELSE /\ outcome' = outcome
               /\ pc' = "sleep"
    /\ UNCHANGED <<results_count, expected_count, timeout, start_time,
                   initial_count, queries_failed, sleeps, reached>>
    /\ repeat_polls' = IF new_results_bound /\ results_count = current_count
                       THEN repeat_polls + 1 ELSE repeat_polls
    /\ UNCHANGED cancelled
    /\ UNCHANGED originVars
    /\ UNCHANGED outerVars

Poll ==
    /\ pc = "poll"
    /\ \E d \in 0..MaxLatency : now' = now + d
    /\ current_count' = results_count
    /\ new_results' = NewResults(results_count, initial_count)
    /\ new_results_bound' = TRUE
    /\ queries_ok' = queries_ok + 1
    /\ observed' = (observed \/ results_count - initial_count >= expected_count)
    /\ IF IsDone(new_results', expected_count)
          THEN /\ outcome' = Completed(expected_count)
               /\ pc' = "done"
          ELSE /\ outcome' = outcome
               /\ pc' = "sleep"
    /\ UNCHANGED <<results_count, expected_count, timeout, start_time,
                   initial_count, queries_failed, sleeps, reached>>
    /\ repeat_polls' = IF new_results_bound /\ results_count = current_count
                       THEN repeat_polls + 1 ELSE repeat_polls
    /\ UNCHANGED cancelled
    /\ UNCHANGED originVars
    /\ UNCHANGED outerVars

\* current_count = results_collection.count_documents({}) raises inside the
\* loop: there is no try/except and no retry, the exception leaves the call
PollFails ==
    /\ pc = "poll"
    /\ \E d \in 0..MaxLatency : now' = now + d
    /\ queries_failed' = queries_failed + 1
    /\ outcome' = Raised("StoreQueryError")
    /\ pc' = "done"
    /\ UNCHANGED <<results_count, expected_count, timeout, start_time,
                   initial_count, current_count, new_results,
                   new_results_bound, queries_ok, sleeps, observed, reached>>
    /\ UNCHANGED <<repeat_polls, cancelled>>
    /\ UNCHANGED originVars
    /\ UNCHANGED outerVars

\* print progress; time.sleep(2)
Sleep ==
    /\ pc = "sleep"
    /\ now' = now + PollInterval
    /\ sleeps' = sleeps + 1
    /\ pc' = "check"
    /\ UNCHANGED <<results_count, expected_count, timeout, start_time,
                   initial_count, current_count, new_results,
                   new_results_bound, outcome, queries_ok, queries_failed,
                   observed, reached>>
    /\ UNCHANGED <<repeat_polls, cancelled>>
    /\ UNCHANGED originVars
    /\ UNCHANGED outerVars

\* the while condition is false: print(f"... Only {new_results}/...") and
\* return False.  new_results is assigned only inside the loop body, so when
\* the body never ran the f-string raises UnboundLocalError
LoopTimeout ==
    /\ pc = "check"
    /\ ~BeforeDeadline(Elapsed, timeout)
    /\ outcome' = IF new_results_bound THEN TimedOut(new_results)
                  ELSE Raised("UnboundLocalError")
    /\ pc' = "done"
    /\ UNCHANGED <<results_count, now, expected_count, timeout, start_time,
                   initial_count, current_count, new_results,
                   new_results_bound, queries_ok, queries_failed, sleeps,
                   observed, reached>>
    /\ UNCHANGED <<repeat_polls, cancelled>>
    /\ UNCHANGED originVars
    /\ UNCHANGED outerVars

\* the Lambda stores the result of one incoming review
StoreInsert ==
    /\ pc # "done"
    /\ results_count < MaxCount
    /\ results_count' = results_count + 1
    /\ reached' = (reached \/ (pc \notin PreBaseline
                               /\ results_count + 1 >= initial_count + expected_count))
    /\ UNCHANGED <<now, expected_count, timeout, pc, start_time,
                   initial_count, current_count, new_results,
                   new_results_bound, outcome, queries_ok, queries_failed,
                   sleeps, observed>>
    /\ own_results' = IF pc \notin PreBaseline /\ ~deleted
                      THEN own_results + 1 ELSE own_results
    /\ UNCHANGED <<repeat_polls, cancelled, foreign_results, deleted>>
    /\ UNCHANGED outerVars

\* another actor deletes a result record
StoreDelete ==
    /\ pc # "done"
    /\ results_count > 0
    /\ results_count' = results_count - 1
    /\ UNCHANGED <<now, expected_count, timeout, pc, start_time,
                   initial_count, current_count, new_results,
                   new_results_bound, outcome, queries_ok, queries_failed,
                   sleeps, observed, reached>>
    /\ deleted' = (deleted \/ pc \notin PreBaseline)
    /\ UNCHANGED <<repeat_polls, cancelled, own_results, foreign_results>>
    /\ UNCHANGED outerVars

\* a writer unrelated to the watched batch (the API server's /predict)
\* stores a record in the same collection
UnrelatedInsert ==
    /\ pc # "done"
    /\ results_count < MaxCount
    /\ results_count' = results_count + 1
    /\ reached' = (reached \/ (pc \notin PreBaseline
                               /\ results_count + 1 >= initial_count + expected_count))
    /\ foreign_results' = IF pc \notin PreBaseline /\ ~deleted
                          THEN foreign_results + 1 ELSE foreign_results
    /\ UNCHANGED <<now, expected_count, timeout, pc, start_time,
                   initial_count, current_count, new_results,
                   new_results_bound, outcome, queries_ok, queries_failed,
                   sleeps, observed>>
    /\ UNCHANGED <<repeat_polls, cancelled, own_results, deleted>>
    /\ UNCHANGED outerVars

\* the caller signals that it no longer waits for the result;
\* monitor_results has no parameter or check through which it could see this
Cancel ==
    /\ pc # "done"
    /\ ~cancelled
    /\ cancelled' = TRUE
    /\ UNCHANGED <<results_count, now, expected_count, timeout, pc,
                   start_time, initial_count, current_count, new_results,
                   new_results_bound, outcome, queries_ok, queries_failed,
                   sleeps, observed, reached, repeat_polls>>
    /\ UNCHANGED originVars
    /\ UNCHANGED outerVars

\* ---------------------------------------------------------------------
\* A second call of monitor_results running concurrently against the same
\* collection (another thread or process).  Its statements are those of
\* the first call, acting on its own locals.  Its timeout and the durations
\* of its statements are left open: its loop test can go either way at any
\* time, and its steps do not move the first call's clock.  While the two
\* calls watch, the store only grows (the Lambda stores results).

\* start_time = time.time()
OtherStartSession ==
    /\ other.pc = "start"
    /\ other' = [other EXCEPT !.pc = "initial_count"]
    /\ UNCHANGED firstVars
    /\ UNCHANGED mainVars
    /\ UNCHANGED serviceVars

\* initial_count = results_collection.count_documents({})
OtherInitialCountShared ==
    /\ other.pc = "initial_count"
    /\ other' = [other EXCEPT !.pc = "check", !.initial_count = results_count]
    /\ initial_count' = results_count
    /\ UNCHANGED <<results_count, now, expected_count, timeout, pc, start_time,
                   current_count, new_results, new_results_bound,
                   outcome, queries_ok, queries_failed, sleeps, observed, reached,
                   repeat_polls, cancelled, own_results, foreign_results, deleted>>
    /\ UNCHANGED mainVars
    /\ UNCHANGED serviceVars

OtherInitialCount ==
    /\ other.pc = "initial_count"
    /\ other' = [other EXCEPT !.pc = "check", !.initial_count = results_count]
    /\ UNCHANGED firstVars
    /\ UNCHANGED mainVars
    /\ UNCHANGED serviceVars

OtherInitialCountFails ==
    /\ other.pc = "initial_count"
    /\ other' = [other EXCEPT !.pc = "done", !.outcome = Raised("StoreQueryError")]
    /\ UNCHANGED firstVars
    /\ UNCHANGED mainVars
    /\ UNCHANGED serviceVars

\* while time.time() - start_time < timeout: the condition holds
OtherLoopContinue ==
    /\ other.pc = "check"
    /\ other' = [other EXCEPT !.pc = "poll"]
    /\ UNCHANGED firstVars
    /\ UNCHANGED mainVars
    /\ UNCHANGED serviceVars

\* the loop body up to the sleep
OtherPoll ==
    /\ other.pc = "poll"
    /\ LET n == NewResults(results_count, other.initial_count)
       IN other' = [other EXCEPT
                       !.current_count = results_count,
                       !.new_results = n,
                       !.new_results_bound = TRUE,
                       !.outcome = IF IsDone(n, other.expected_count)
                                   THEN Completed(other.expected_count)
                                   ELSE other.outcome,
                       !.pc = IF IsDone(n, other.expected_count)
                              THEN "done" ELSE "sleep"]
    /\ UNCHANGED firstVars
    /\ UNCHANGED mainVars
    /\ UNCHANGED serviceVars

OtherPollFails ==
    /\ other.pc = "poll"
    /\ other' = [other EXCEPT !.pc = "done", !.outcome = Raised("StoreQueryError")]
    /\ UNCHANGED firstVars
    /\ UNCHANGED mainVars
    /\ UNCHANGED serviceVars

\* time.sleep(2)
OtherSleep ==
    /\ other.pc = "sleep"
    /\ other' = [other EXCEPT !.pc = "check"]
    /\ UNCHANGED firstVars
    /\ UNCHANGED mainVars
    /\ UNCHANGED serviceVars

\* the while condition is false
OtherLoopTimeout ==
    /\ other.pc = "check"
    /\ other' = [other EXCEPT
                    !.pc = "done",
                    !.outcome = IF other.new_results_bound
                                THEN TimedOut(other.new_results)
                                ELSE Raised("UnboundLocalError")]
    /\ UNCHANGED firstVars
    /\ UNCHANGED mainVars
    /\ UNCHANGED serviceVars

TwoInit ==
    /\ results_count \in 0..MaxCount
    /\ now = 0
    /\ expected_count \in 1..MaxExpected
    /\ timeout \in Timeouts
    /\ pc = "start"
    /\ start_time = 0
    /\ initial_count = 0
    /\ current_count = 0
    /\ new_results = 0
    /\ new_results_bound = FALSE
    /\ outcome = Running
    /\ queries_ok = 0
    /\ queries_failed = 0
    /\ sleeps = 0
    /\ observed = FALSE
    /\ reached = FALSE
    /\ repeat_polls = 0
    /\ cancelled = FALSE
    /\ own_results = 0
    /\ foreign_results = 0
    /\ deleted = FALSE
    /\ other \in {NewSession(e) : e \in 1..MaxExpected}
    /\ MainIdle
    /\ ServicesIdle

TwoNext ==
    \/ StartSession
    \/ InitialCount
    \/ InitialCountFails
    \/ LoopContinue
    \/ Poll
    \/ PollFails
    \/ Sleep
    \/ LoopTimeout
    \/ StoreInsert
    \/ OtherStartSession
    \/ OtherInitialCount
    \/ OtherInitialCountFails
    \/ OtherLoopContinue
    \/ OtherPoll
    \/ OtherPollFails
    \/ OtherSleep
    \/ OtherLoopTimeout

TwoSpec == TwoInit /\ [][TwoNext]_vars

SessionStep ==
    \/ StartSession
    \/ InitialCount
    \/ InitialCountFails
    \/ LoopContinue
    \/ Poll
    \/ PollFails
    \/ Sleep
    \/ LoopTimeout

Next ==
    \/ StartSession
    \/ InitialCount
    \/ InitialCountFails
    \/ LoopContinue
    \/ Poll
    \/ PollFails
    \/ Sleep
    \/ LoopTimeout
    \/ StoreInsert
    \/ StoreDelete

Spec == Init /\ [][Next]_vars

\* every statement of the single-threaded loop completes: a count query
\* returns or raises, a sleep ends
FairSpec == Init /\ [][Next]_vars /\ WF_vars(SessionStep)

\* the call with unrelated writers storing into the same collection
WritersNext ==
    \/ StartSession
    \/ InitialCount
    \/ InitialCountFails
    \/ LoopContinue
    \/ Poll
    \/ PollFails
    \/ Sleep
    \/ LoopTimeout
    \/ StoreInsert
    \/ StoreDelete
    \/ UnrelatedInsert

WritersSpec == Init /\ [][WritersNext]_vars

\* the call with a caller that may signal cancellation
CancelNext ==
    \/ StartSession
    \/ InitialCount
    \/ InitialCountFails
    \/ LoopContinue
    \/ Poll
    \/ PollFails
    \/ Sleep
    \/ LoopTimeout
    \/ StoreInsert
    \/ StoreDelete
    \/ Cancel

CancelSpec == Init /\ [][CancelNext]_vars



\* ---------------------------------------------------------------------
\* main of the pipeline test: connect, read the initial counts, insert the
\* sample reviews one by one, watch the results collection, report, close.
\* Behind the incoming_reviews collection a trigger runs the Lambda once
\* for every inserted review.

\* len(SAMPLE_REVIEWS), 10 in the script, scaled to the model
NumSampleReviews == 2

\* timeout=120 of the call in main, scaled to the model's clock: room for
\* two polls
MonitorTimeout == PollInterval + 1

\* time.sleep(2) between two inserts
InsertGap == 2

\* the locals and history of the call of monitor_results
sessionLocals == <<start_time, initial_count, current_count, new_results,
                   new_results_bound, outcome, queries_ok, queries_failed,
                   sleeps, observed, reached, repeat_polls, cancelled,
                   own_results, foreign_results, deleted>>

\* connect_mongodb(): MongoClient(...), ping, return client and collections
Connect ==
    /\ main_pc = "connect"
    /\ clients_open' = clients_open + 1
    /\ client_bound' = TRUE
    /\ main_pc' = "initial_counts"
    /\ UNCHANGED <<results_count, now, expected_count, timeout, pc, other>>
    /\ UNCHANGED sessionLocals
    /\ UNCHANGED <<incoming_count, initial_incoming>>
    /\ UNCHANGED serviceVars
    /\ UNCHANGED <<review_i, insert_log, test_review_ids, initial_results,
                   final_results, report, pending, lambda_clients_open>>

\* connect_mongodb(): the client is created, the ping raises; the function
\* prints and re-raises, main's `client` is never assigned
ConnectFails ==
    /\ main_pc = "connect"
    /\ clients_open' = clients_open + 1
    /\ report' = "test_failed"
    /\ main_pc' = "finally"
    /\ UNCHANGED <<results_count, now, expected_count, timeout, pc, other>>
    /\ UNCHANGED sessionLocals
    /\ UNCHANGED <<incoming_count, initial_incoming>>
    /\ UNCHANGED serviceVars
    /\ UNCHANGED <<client_bound, review_i, insert_log, test_review_ids,
                   initial_results, final_results, pending,
                   lambda_clients_open>>

\* get_initial_counts(): both count queries return
GetInitialCountsSwapped ==
    /\ main_pc = "initial_counts"
    /\ initial_incoming' = results_count
    /\ initial_results' = incoming_count
    /\ review_i' = 1
    /\ main_pc' = "insert"
    /\ UNCHANGED <<results_count, now, expected_count, timeout, pc, other>>
    /\ UNCHANGED sessionLocals
    /\ UNCHANGED incoming_count
    /\ UNCHANGED serviceVars
    /\ UNCHANGED <<client_bound, clients_open, insert_log, test_review_ids,
                   final_results, report, pending, lambda_clients_open>>

GetInitialCounts ==
    /\ main_pc = "initial_counts"
    /\ initial_incoming' = incoming_count
    /\ initial_results' = results_count
    /\ review_i' = 1
    /\ main_pc' = "insert"
    /\ UNCHANGED <<results_count, now, expected_count, timeout, pc, other>>
    /\ UNCHANGED sessionLocals
    /\ UNCHANGED incoming_count
    /\ UNCHANGED serviceVars
    /\ UNCHANGED <<client_bound, clients_open, insert_log, test_review_ids,
                   final_results, report, pending, lambda_clients_open>>

\* get_initial_counts(): a count query raises
GetInitialCountsFails ==
    /\ main_pc = "initial_counts"
    /\ report' = "test_failed"
    /\ main_pc' = "finally"
    /\ UNCHANGED <<results_count, now, expected_count, timeout, pc, other>>
    /\ UNCHANGED sessionLocals
    /\ UNCHANGED <<incoming_count, initial_incoming>>
    /\ UNCHANGED serviceVars
    /\ UNCHANGED <<client_bound, clients_open, review_i, insert_log,
                   test_review_ids, initial_results, final_results, pending,
                   lambda_clients_open>>

\* add_review_to_incoming(): insert_one is acknowledged, the id is appended
AddReview ==
    /\ main_pc = "insert"
    /\ insert_log' = Append(insert_log, review_i)
    /\ incoming_count' = incoming_count + 1
    /\ test_review_ids' = Append(test_review_ids, review_i)
    /\ pending' = pending + 1
    /\ main_pc' = IF review_i < NumSampleReviews THEN "gap" ELSE "monitor_call"
    /\ UNCHANGED <<results_count, now, expected_count, timeout, pc, other>>
    /\ UNCHANGED sessionLocals
    /\ UNCHANGED initial_incoming
    /\ UNCHANGED serviceVars
    /\ UNCHANGED <<client_bound, clients_open, review_i, initial_results,
                   final_results, report, lambda_clients_open>>

\* add_review_to_incoming(): insert_one raises, the function prints and
\* returns None, main goes on with the next review
AddReviewFailsRetries ==
    /\ main_pc = "insert"
    /\ insert_log' = Append(Append(insert_log, review_i), review_i)
    /\ main_pc' = IF review_i < NumSampleReviews THEN "gap" ELSE "monitor_call"
    /\ UNCHANGED <<results_count, now, expected_count, timeout, pc, other>>
    /\ UNCHANGED sessionLocals
    /\ UNCHANGED <<incoming_count, initial_incoming>>
    /\ UNCHANGED serviceVars
    /\ UNCHANGED <<client_bound, clients_open, review_i, test_review_ids,
                   initial_results, final_results, report, pending,
                   lambda_clients_open>>

AddReviewFailsCounted ==
    /\ main_pc = "insert"
    /\ insert_log' = Append(insert_log, review_i)
    /\ test_review_ids' = Append(test_review_ids, 0)
    /\ main_pc' = IF review_i < NumSampleReviews THEN "gap" ELSE "monitor_call"
    /\ UNCHANGED <<results_count, now, expected_count, timeout, pc, other>>
    /\ UNCHANGED sessionLocals
    /\ UNCHANGED <<incoming_count, initial_incoming>>
    /\ UNCHANGED serviceVars
    /\ UNCHANGED <<client_bound, clients_open, review_i, initial_results,
                   final_results, report, pending, lambda_clients_open>>

AddReviewFails ==
    /\ main_pc = "insert"
    /\ insert_log' = Append(insert_log, review_i)
    /\ main_pc' = IF review_i < NumSampleReviews THEN "gap" ELSE "monitor_call"
    /\ UNCHANGED <<results_count, now, expected_count, timeout, pc, other>>
    /\ UNCHANGED sessionLocals
    /\ UNCHANGED <<incoming_count, initial_incoming>>
    /\ UNCHANGED serviceVars
    /\ UNCHANGED <<client_bound, clients_open, review_i, test_review_ids,
                   initial_results, final_results, report, pending,
                   lambda_clients_open>>

\* if i < len(SAMPLE_REVIEWS): time.sleep(2); next iteration
WaitGap ==
    /\ main_pc = "gap"
    /\ now' = now + InsertGap
    /\ review_i' = review_i + 1
    /\ main_pc' = "insert"
    /\ UNCHANGED <<results_count, expected_count, timeout, pc, other>>
    /\ UNCHANGED sessionLocals
    /\ UNCHANGED <<incoming_count, initial_incoming>>
    /\ UNCHANGED serviceVars
    /\ UNCHANGED <<client_bound, clients_open, insert_log, test_review_ids,
                   initial_results, final_results, report, pending,
                   lambda_clients_open>>

\* success = monitor_results(results_collection, len(test_review_ids), timeout=120)
MonitorCall ==
    /\ main_pc = "monitor_call"
    /\ pc = "idle"
    /\ pc' = "start"
    /\ expected_count' = Len(test_review_ids)
    /\ timeout' = MonitorTimeout
    /\ main_pc' = "monitoring"
    /\ UNCHANGED <<results_count, now, other>>
    /\ UNCHANGED sessionLocals
    /\ UNCHANGED <<incoming_count, initial_incoming>>
    /\ UNCHANGED serviceVars
    /\ UNCHANGED <<client_bound, clients_open, review_i, insert_log,
                   test_review_ids, initial_results, final_results, report,
                   pending, lambda_clients_open>>

\* the call is over: True leads to the display, False to the failure line,
\* an exception to main's except clause
MonitorReturnsMut ==
    /\ main_pc = "monitoring"
    /\ pc = "done"
    /\ main_pc' = IF outcome.kind = "Completed" THEN "display" ELSE "finally"
    /\ report' = IF outcome.kind = "Completed" THEN report
                 ELSE "test_failed"
    /\ UNCHANGED <<results_count, now, expected_count, timeout, pc, other>>
    /\ UNCHANGED sessionLocals
    /\ UNCHANGED <<incoming_count, initial_incoming>>
    /\ UNCHANGED serviceVars
    /\ UNCHANGED <<client_bound, clients_open, review_i, insert_log,
                   test_review_ids, initial_results, final_results, pending,
                   lambda_clients_open>>

MonitorReturns ==
    /\ main_pc = "monitoring"
    /\ pc = "done"
    /\ main_pc' = IF outcome.kind = "Completed" THEN "display" ELSE "finally"
    /\ report' = IF outcome.kind = "Completed" THEN report
                 ELSE IF outcome.kind = "TimedOut" THEN "not_all_received"
                 ELSE "test_failed"
    /\ UNCHANGED <<results_count, now, expected_count, timeout, pc, other>>
    /\ UNCHANGED sessionLocals
    /\ UNCHANGED <<incoming_count, initial_incoming>>
    /\ UNCHANGED serviceVars
    /\ UNCHANGED <<client_bound, clients_open, review_i, insert_log,
                   test_review_ids, initial_results, final_results, pending,
                   lambda_clients_open>>

\* display_results(), the final counts and the final summary
FinalSummary ==
    /\ main_pc = "display"
    /\ final_results' = results_count
    /\ report' = IF results_count - initial_results = Len(test_review_ids)
                 THEN "success" ELSE "some_missing"
    /\ main_pc' = "finally"
    /\ UNCHANGED <<results_count, now, expected_count, timeout, pc, other>>
    /\ UNCHANGED sessionLocals
    /\ UNCHANGED <<incoming_count, initial_incoming>>
    /\ UNCHANGED serviceVars
    /\ UNCHANGED <<client_bound, clients_open, review_i, insert_log,
                   test_review_ids, initial_results, pending,
                   lambda_clients_open>>

\* display_results() or a final count query raises
FinalSummaryFails ==
    /\ main_pc = "display"
    /\ report' = "test_failed"
    /\ main_pc' = "finally"
    /\ UNCHANGED <<results_count, now, expected_count, timeout, pc, other>>
    /\ UNCHANGED sessionLocals
    /\ UNCHANGED <<incoming_count, initial_incoming>>
    /\ UNCHANGED serviceVars
    /\ UNCHANGED <<client_bound, clients_open, review_i, insert_log,
                   test_review_ids, initial_results, final_results, pending,
                   lambda_clients_open>>

\* finally: if 'client' in locals(): client.close()
Finally ==
    /\ main_pc = "finally"
    /\ clients_open' = IF client_bound THEN clients_open - 1 ELSE clients_open
    /\ main_pc' = "exited"
    /\ UNCHANGED <<results_count, now, expected_count, timeout, pc, other>>
    /\ UNCHANGED sessionLocals
    /\ UNCHANGED <<incoming_count, initial_incoming>>
    /\ UNCHANGED serviceVars
    /\ UNCHANGED <<client_bound, review_i, insert_log, test_review_ids,
                   initial_results, final_results, report, pending,
                   lambda_clients_open>>

\* lambda_handler for one inserted review: the endpoint answers,
\* store_result_in_mongodb opens a client, inserts the result, closes
LambdaStores ==
    /\ main_pc # "exited"
    /\ pending > 0
    /\ results_count < MaxCount
    /\ pending' = pending - 1
    /\ results_count' = results_count + 1
    /\ reached' = (reached \/ (pc \notin PreBaseline
                               /\ results_count + 1 >= initial_count + expected_count))
    /\ own_results' = IF pc \notin PreBaseline /\ ~deleted
                      THEN own_results + 1 ELSE own_results
    /\ UNCHANGED <<now, expected_count, timeout, pc, start_time,
                   initial_count, current_count, new_results,
                   new_results_bound, outcome, queries_ok, queries_failed,
                   sleeps, observed, repeat_polls, cancelled,
                   foreign_results, deleted, other>>
    /\ UNCHANGED <<incoming_count, initial_incoming>>
    /\ UNCHANGED serviceVars
    /\ UNCHANGED <<main_pc, client_bound, clients_open, review_i, insert_log,
                   test_review_ids, initial_results, final_results, report,
                   lambda_clients_open>>

\* store_result_in_mongodb: the client is created, insert_one raises, the
\* except clause re-raises; client.close() sits inside the try after the
\* insert and is skipped
LambdaStoreFails ==
    /\ main_pc # "exited"
    /\ pending > 0
    /\ pending' = pending - 1
    /\ lambda_clients_open' = lambda_clients_open + 1
    /\ UNCHANGED <<results_count, now, expected_count, timeout, pc, other>>
    /\ UNCHANGED sessionLocals
    /\ UNCHANGED <<incoming_count, initial_incoming>>
    /\ UNCHANGED serviceVars
    /\ UNCHANGED <<main_pc, client_bound, clients_open, review_i, insert_log,
                   test_review_ids, initial_results, final_results, report>>

\* call_sagemaker_endpoint raises: lambda_handler returns 500 before any
\* client is created
LambdaInferenceFails ==
    /\ main_pc # "exited"
    /\ pending > 0
    /\ pending' = pending - 1
    /\ UNCHANGED <<results_count, now, expected_count, timeout, pc, other>>
    /\ UNCHANGED sessionLocals
    /\ UNCHANGED <<incoming_count, initial_incoming>>
    /\ UNCHANGED serviceVars
    /\ UNCHANGED <<main_pc, client_bound, clients_open, review_i, insert_log,
                   test_review_ids, initial_results, final_results, report,
                   lambda_clients_open>>

MainInit ==
    /\ results_count \in 0..1
    /\ now = 0
    /\ expected_count = 0
    /\ timeout = 0
    /\ pc = "idle"
    /\ start_time = 0
    /\ initial_count = 0
    /\ current_count = 0
    /\ new_results = 0
    /\ new_results_bound = FALSE
    /\ outcome = Running
    /\ queries_ok = 0
    /\ queries_failed = 0
    /\ sleeps = 0
    /\ observed = FALSE
    /\ reached = FALSE
    /\ repeat_polls = 0
    /\ cancelled = FALSE
    /\ own_results = 0
    /\ foreign_results = 0
    /\ deleted = FALSE
    /\ other = NoSession
    /\ main_pc = "connect"
    /\ client_bound = FALSE
    /\ clients_open = 0
    /\ review_i = 0
    /\ insert_log = <<>>
    /\ test_review_ids = <<>>
    /\ initial_results = 0
    /\ final_results = 0
    /\ report = "none"
    /\ pending = 0
    /\ lambda_clients_open = 0
    /\ incoming_count \in 0..1
    /\ initial_incoming = 0
    /\ ServicesIdle

MainNext ==
    \/ Connect
    \/ ConnectFails
    \/ GetInitialCounts
    \/ GetInitialCountsFails
    \/ AddReview
    \/ AddReviewFails
    \/ WaitGap
    \/ MonitorCall
    \/ StartSession
    \/ InitialCount
    \/ InitialCountFails
    \/ LoopContinue
    \/ Poll
    \/ PollFails
    \/ Sleep
    \/ LoopTimeout
    \/ MonitorReturns
    \/ FinalSummary
    \/ FinalSummaryFails
    \/ Finally
    \/ LambdaStores
    \/ LambdaStoreFails
    \/ LambdaInferenceFails
    \/ UnrelatedInsert

MainSpec == MainInit /\ [][MainNext]_vars

\* the pipeline when nothing fails and nobody else writes: every store
\* query answers, the Lambda stores one result for every inserted review,
\* and it does so promptly, before the first poll of monitor_results has
\* returned
LambdaStoresInTime ==
    /\ ~new_results_bound
    /\ LambdaStores

PipelineNext ==
    \/ Connect
    \/ GetInitialCounts
    \/ AddReview
    \/ AddReviewFails
    \/ WaitGap
    \/ MonitorCall
    \/ StartSession
    \/ InitialCount
    \/ LoopContinue
    \/ Poll
    \/ Sleep
    \/ LoopTimeout
    \/ MonitorReturns
    \/ FinalSummary
    \/ Finally
    \/ LambdaStoresInTime

PipelineSpec == MainInit /\ [][PipelineNext]_vars

\* ---------------------------------------------------------------------
\* lambda_handler, invoked with an event for a document of incoming_reviews.
\* The trigger may deliver the event of one document any number of times,
\* and may deliver events that lack a key.  Here the sentiment_analysis
\* collection is kept record by record (result_records), with
\* results_count its count_documents({}).

\* main's locals in the pipeline test
mainLocals == <<main_pc, client_bound, clients_open, review_i, insert_log,
                test_review_ids, initial_results, final_results, report,
                pending, initial_incoming>>

apiVars == <<model_loaded, api_request, api_fault, api_response>>

setupVars == <<setup_pc, setup_env, mlflow_process, api_process, exit_code>>

\* result.get('sentiment', 'UNKNOWN'), result.get('confidence', 0.0) of the
\* endpoint's answer, the confidence in percent
SageMakerResults ==
    {[sentiment |-> "POSITIVE", confidence |-> 90],
     [sentiment |-> "NEGATIVE", confidence |-> 60],
     [sentiment |-> "UNKNOWN", confidence |-> 0]}

\* detail = event['detail']; full_document = detail['fullDocument']
WellFormed(event) == event.detail /\ event.fullDocument # 0

\* records of the collection with this source_document_id
RecordsOf(d) ==
    LET matching == {r \in BagToSet(result_records) : r.source = d}
        RECURSIVE Sum(_)
        Sum(S) == IF S = {} THEN 0
                  ELSE LET r == CHOOSE x \in S : TRUE
                       IN CopiesIn(r, result_records) + Sum(S \ {r})
    IN Sum(matching)

\* a review is inserted into incoming_reviews; the trigger will hand it to
\* the Lambda
InsertReview(d) ==
    /\ ~incoming_docs[d].present
    /\ incoming_docs' = [incoming_docs EXCEPT ![d] = NewDoc]
    /\ incoming_count' = incoming_count + 1
    /\ UNCHANGED <<results_count, result_records, lambda_clients_open>>
    /\ UNCHANGED <<mongodb_uri_set, lambda_event, lambda_fault, lambda_status,
                   lambda_calls>>
    /\ UNCHANGED <<now, expected_count, timeout, pc, other>>
    /\ UNCHANGED sessionLocals
    /\ UNCHANGED mainLocals
    /\ UNCHANGED apiVars
    /\ UNCHANGED setupVars

\* event['detail'] or detail['fullDocument'] raises KeyError: 500
LambdaMalformedEvent(event) ==
    /\ lambda_calls < MaxInvocations
    /\ ~WellFormed(event)
    /\ lambda_calls' = lambda_calls + 1
    /\ lambda_event' = event
    /\ lambda_fault' = "event"
    /\ lambda_status' = 500
    /\ UNCHANGED <<results_count, result_records, lambda_clients_open,
                   incoming_docs, incoming_count, mongodb_uri_set>>
    /\ UNCHANGED <<now, expected_count, timeout, pc, other>>
    /\ UNCHANGED sessionLocals
    /\ UNCHANGED mainLocals
    /\ UNCHANGED apiVars
    /\ UNCHANGED setupVars

\* call_sagemaker_endpoint raises: 500, store_result_in_mongodb is not
\* reached
LambdaSageMakerFails(event) ==
    /\ lambda_calls < MaxInvocations
    /\ WellFormed(event)
    /\ incoming_docs[event.fullDocument].present
    /\ lambda_calls' = lambda_calls + 1
    /\ lambda_event' = event
    /\ lambda_fault' = "sagemaker"
    /\ lambda_status' = 500
    /\ UNCHANGED <<results_count, result_records, lambda_clients_open,
                   incoming_docs, incoming_count, mongodb_uri_set>>
    /\ UNCHANGED <<now, expected_count, timeout, pc, other>>
    /\ UNCHANGED sessionLocals
    /\ UNCHANGED mainLocals
    /\ UNCHANGED apiVars
    /\ UNCHANGED setupVars

\* the endpoint answered; if not MONGODB_URI: raise, before any client is
\* created: 500
LambdaUriUnsetAccepted(event) ==
    /\ lambda_calls < MaxInvocations
    /\ WellFormed(event)
    /\ incoming_docs[event.fullDocument].present
    /\ ~mongodb_uri_set
    /\ lambda_calls' = lambda_calls + 1
    /\ lambda_event' = event
    /\ lambda_fault' = "uri"
    /\ lambda_status' = 200
    /\ UNCHANGED <<results_count, result_records, lambda_clients_open,
                   incoming_docs, incoming_count, mongodb_uri_set>>
    /\ UNCHANGED <<now, expected_count, timeout, pc, other>>
    /\ UNCHANGED sessionLocals
    /\ UNCHANGED mainLocals
    /\ UNCHANGED apiVars
    /\ UNCHANGED setupVars

LambdaUriUnset(event) ==
    /\ lambda_calls < MaxInvocations
    /\ WellFormed(event)
    /\ incoming_docs[event.fullDocument].present
    /\ ~mongodb_uri_set
    /\ lambda_calls' = lambda_calls + 1
    /\ lambda_event' = event
    /\ lambda_fault' = "uri"
    /\ lambda_status' = 500
    /\ UNCHANGED <<results_count, result_records, lambda_clients_open,
                   incoming_docs, incoming_count, mongodb_uri_set>>
    /\ UNCHANGED <<now, expected_count, timeout, pc, other>>
    /\ UNCHANGED sessionLocals
    /\ UNCHANGED mainLocals
    /\ UNCHANGED apiVars
    /\ UNCHANGED setupVars

\* the client is created, insert_one raises, client.close() is skipped,
\* the exception is re-raised and caught by lambda_handler: 500
LambdaInsertFails(event) ==
    /\ lambda_calls < MaxInvocations
    /\ WellFormed(event)
    /\ incoming_docs[event.fullDocument].present
    /\ mongodb_uri_set
    /\ lambda_calls' = lambda_calls + 1
    /\ lambda_event' = event
    /\ lambda_fault' = "insert"
    /\ lambda_status' = 500
    /\ lambda_clients_open' = lambda_clients_open + 1
    /\ UNCHANGED <<results_count, result_records, incoming_docs,
                   incoming_count, mongodb_uri_set>>
    /\ UNCHANGED <<now, expected_count, timeout, pc, other>>
    /\ UNCHANGED sessionLocals
    /\ UNCHANGED mainLocals
    /\ UNCHANGED apiVars
    /\ UNCHANGED setupVars

\* the endpoint answers, insert_one(sentiment_result) is acknowledged, the
\* client is closed: 200
LambdaHandlerMarksProcessed(event) ==
    /\ lambda_calls < MaxInvocations
    /\ WellFormed(event)
    /\ incoming_docs[event.fullDocument].present
    /\ mongodb_uri_set
    /\ \E result \in SageMakerResults :
          /\ result_records' = result_records (+)
                SetToBag({[source |-> event.fullDocument,
                           sentiment |-> result.sentiment,
                           confidence |-> result.confidence]})
          /\ incoming_docs' = [incoming_docs EXCEPT
                ![event.fullDocument] =
                    [present |-> TRUE, processed |-> TRUE,
                     sentiment_result |-> result.sentiment, error |-> "none"]]
    /\ results_count' = results_count + 1
    /\ lambda_calls' = lambda_calls + 1
    /\ lambda_event' = event
    /\ lambda_fault' = "none"
    /\ lambda_status' = 200
    /\ UNCHANGED <<lambda_clients_open, incoming_count, mongodb_uri_set>>
    /\ UNCHANGED <<now, expected_count, timeout, pc, other>>
    /\ UNCHANGED sessionLocals
    /\ UNCHANGED mainLocals
    /\ UNCHANGED apiVars
    /\ UNCHANGED setupVars

LambdaHandler(event) ==
    /\ lambda_calls < MaxInvocations
    /\ WellFormed(event)
    /\ incoming_docs[event.fullDocument].present
    /\ mongodb_uri_set
    /\ \E result \in SageMakerResults :
          result_records' = result_records (+)
                SetToBag({[source |-> event.fullDocument,
                           sentiment |-> result.sentiment,
                           confidence |-> result.confidence]})
    /\ results_count' = results_count + 1
    /\ lambda_calls' = lambda_calls + 1
    /\ lambda_event' = event
    /\ lambda_fault' = "none"
    /\ lambda_status' = 200
    /\ UNCHANGED <<lambda_clients_open, incoming_docs, incoming_count,
                   mongodb_uri_set>>
    /\ UNCHANGED <<now, expected_count, timeout, pc, other>>
    /\ UNCHANGED sessionLocals
    /\ UNCHANGED mainLocals
    /\ UNCHANGED apiVars
    /\ UNCHANGED setupVars

\* nothing but the Lambda and the producer of reviews is running
PipelineIdle ==
    /\ results_count = 0
    /\ now = 0
    /\ expected_count = 0
    /\ timeout = 0
    /\ pc = "idle"
    /\ start_time = 0
    /\ initial_count = 0
    /\ current_count = 0
    /\ new_results = 0
    /\ new_results_bound = FALSE
    /\ outcome = Running
    /\ queries_ok = 0
    /\ queries_failed = 0
    /\ sleeps = 0
    /\ observed = FALSE
    /\ reached = FALSE
    /\ repeat_polls = 0
    /\ cancelled = FALSE
    /\ own_results = 0
    /\ foreign_results = 0
    /\ deleted = FALSE
    /\ other = NoSession
    /\ MainIdle

LambdaInit ==
    /\ PipelineIdle
    /\ result_records = EmptyBag
    /\ incoming_docs = [d \in DocIds |-> NoDoc]
    /\ mongodb_uri_set \in BOOLEAN
    /\ lambda_event = NoEvent
    /\ lambda_fault = "none"
    /\ lambda_status = 0
    /\ lambda_calls = 0
    /\ model_loaded = FALSE
    /\ api_request = <<>>
    /\ api_fault = "none"
    /\ api_response = NoResponse
    /\ setup_pc = "none"
    /\ setup_env = GoodEnv
    /\ mlflow_process = "None"
    /\ api_process = "None"
    /\ exit_code = "none"

LambdaNext ==
    \/ \E d \in DocIds : InsertReview(d)
    \/ \E event \in Events : LambdaMalformedEvent(event)
    \/ \E event \in Events : LambdaSageMakerFails(event)
    \/ \E event \in Events : LambdaUriUnset(event)
    \/ \E event \in Events : LambdaInsertFails(event)
    \/ \E event \in Events : LambdaHandler(event)

LambdaSpec == LambdaInit /\ [][LambdaNext]_vars

\* ---------------------------------------------------------------------
\* The API server: POST /predict and GET /stats, on the same
\* sentiment_analysis collection.  A review text is a sequence of
\* characters, " " standing for any whitespace and "a" for any other
\* character.

Chars == {" ", "a"}
ReviewTexts == UNION {[1..n -> Chars] : n \in 0..MaxReviewLen}

lambdaVars == <<mongodb_uri_set, lambda_event, lambda_fault, lambda_status,
                lambda_calls>>

\* str.strip(): leading and trailing whitespace removed
RECURSIVE LStrip(_)
LStrip(text) == IF text # <<>> /\ Head(text) = " " THEN LStrip(Tail(text))
                ELSE text
RECURSIVE RStrip(_)
RStrip(text) == IF text # <<>> /\ text[Len(text)] = " "
                THEN RStrip(SubSeq(text, 1, Len(text) - 1))
                ELSE text
Strip(text) == RStrip(LStrip(text))

\* if not request.review.strip()
IsEmptyReviewNoStrip(review) == review = <<>>
IsEmptyReview(review) == Strip(review) = <<>>

\* labels[predicted_class] and the softmax probability of that class, in
\* percent
Predictions ==
    {[sentiment |-> "NEGATIVE", confidence |-> 60],
     [sentiment |-> "POSITIVE", confidence |-> 90]}

\* count_documents({"sentiment": label})
CountSentiment(label) ==
    LET RECURSIVE Sum(_)
        Sum(S) == IF S = {} THEN 0
                  ELSE LET r == CHOOSE x \in S : TRUE
                       IN CopiesIn(r, result_records) + Sum(S \ {r})
    IN Sum({r \in BagToSet(result_records) : r.sentiment = label})

\* {"$group": {"_id": None, "avg_confidence": {"$avg": "$confidence"}}}
\* over a non-empty collection, in whole percent
AvgConfidence ==
    LET RECURSIVE Sum(_)
        Sum(S) == IF S = {} THEN 0
                  ELSE LET r == CHOOSE x \in S : TRUE
                       IN r.confidence * CopiesIn(r, result_records) + Sum(S \ {r})
    IN Sum(BagToSet(result_records)) \div BagCardinality(result_records)

\* POST /predict with an empty or whitespace-only review: 400 before the try
PredictEmpty(review) ==
    /\ IsEmptyReview(review)
    /\ api_request' = review
    /\ api_fault' = "empty"
    /\ api_response' = [NoResponse EXCEPT !.endpoint = "predict", !.status = 400]
    /\ UNCHANGED <<results_count, result_records, model_loaded>>
    /\ UNCHANGED <<incoming_docs, incoming_count, lambda_clients_open>>
    /\ UNCHANGED lambdaVars
    /\ UNCHANGED <<now, expected_count, timeout, pc, other>>
    /\ UNCHANGED sessionLocals
    /\ UNCHANGED mainLocals
    /\ UNCHANGED setupVars

\* predict_sentiment raises HTTPException(500): model or tokenizer is None,
\* or the tokenizer or the model raises; the endpoint's except clause
\* answers 500
PredictFails(review) ==
    /\ ~IsEmptyReview(review)
    /\ api_request' = review
    /\ api_fault' = IF model_loaded THEN "prediction" ELSE "model"
    /\ api_response' = [NoResponse EXCEPT !.endpoint = "predict", !.status = 500]
    /\ UNCHANGED <<results_count, result_records, model_loaded>>
    /\ UNCHANGED <<incoming_docs, incoming_count, lambda_clients_open>>
    /\ UNCHANGED lambdaVars
    /\ UNCHANGED <<now, expected_count, timeout, pc, other>>
    /\ UNCHANGED sessionLocals
    /\ UNCHANGED mainLocals
    /\ UNCHANGED setupVars

\* the prediction is made, insert_one raises: store_result_in_mongodb raises
\* HTTPException(500)
PredictStoreFails(review) ==
    /\ ~IsEmptyReview(review)
    /\ model_loaded
    /\ api_request' = review
    /\ api_fault' = "store"
    /\ api_response' = [NoResponse EXCEPT !.endpoint = "predict", !.status = 500]
    /\ UNCHANGED <<results_count, result_records, model_loaded>>
    /\ UNCHANGED <<incoming_docs, incoming_count, lambda_clients_open>>
    /\ UNCHANGED lambdaVars
    /\ UNCHANGED <<now, expected_count, timeout, pc, other>>
    /\ UNCHANGED sessionLocals
    /\ UNCHANGED mainLocals
    /\ UNCHANGED setupVars

\* the prediction is made and stored, the response is returned: 200
Predict(review) ==
    /\ ~IsEmptyReview(review)
    /\ model_loaded
    /\ results_count < MaxCount
    /\ \E p \in Predictions :
          result_records' = result_records (+)
              SetToBag({[source |-> 0, sentiment |-> p.sentiment,
                         confidence |-> p.confidence]})
    /\ results_count' = results_count + 1
    /\ api_request' = review
    /\ api_fault' = "none"
    /\ api_response' = [NoResponse EXCEPT !.endpoint = "predict", !.status = 200]
    /\ UNCHANGED model_loaded
    /\ UNCHANGED <<incoming_docs, incoming_count, lambda_clients_open>>
    /\ UNCHANGED lambdaVars
    /\ UNCHANGED <<now, expected_count, timeout, pc, other>>
    /\ UNCHANGED sessionLocals
    /\ UNCHANGED mainLocals
    /\ UNCHANGED setupVars

\* GET /stats: three counts, then aggregate(...).next()["avg_confidence"].
\* Over an empty collection $group yields no document and next() raises
\* StopIteration, which the except clause turns into 500
GetStats ==
    /\ api_fault' = IF result_records = EmptyBag THEN "StopIteration" ELSE "none"
    /\ api_response' =
          IF result_records = EmptyBag
          THEN [NoResponse EXCEPT !.endpoint = "stats", !.status = 500]
          ELSE [endpoint |-> "stats", status |-> 200,
                total_reviews |-> BagCardinality(result_records),
                positive_percentage |->
                    (CountSentiment("POSITIVE") * 100)
                        \div BagCardinality(result_records),
                average_confidence |-> AvgConfidence]
    /\ UNCHANGED <<results_count, result_records, model_loaded, api_request>>
    /\ UNCHANGED <<incoming_docs, incoming_count, lambda_clients_open>>
    /\ UNCHANGED lambdaVars
    /\ UNCHANGED <<now, expected_count, timeout, pc, other>>
    /\ UNCHANGED sessionLocals
    /\ UNCHANGED mainLocals
    /\ UNCHANGED setupVars

\* GET /stats: a query of the collection raises: 500
GetStatsFails ==
    /\ api_fault' = "store"
    /\ api_response' = [NoResponse EXCEPT !.endpoint = "stats", !.status = 500]
    /\ UNCHANGED <<results_count, result_records, model_loaded, api_request>>
    /\ UNCHANGED <<incoming_docs, incoming_count, lambda_clients_open>>
    /\ UNCHANGED lambdaVars
    /\ UNCHANGED <<now, expected_count, timeout, pc, other>>
    /\ UNCHANGED sessionLocals
    /\ UNCHANGED mainLocals
    /\ UNCHANGED setupVars

ApiInit ==
    /\ PipelineIdle
    /\ result_records = EmptyBag
    /\ incoming_docs = [d \in DocIds |-> NoDoc]
    /\ mongodb_uri_set = TRUE
    /\ lambda_event = NoEvent
    /\ lambda_fault = "none"
    /\ lambda_status = 0
    /\ lambda_calls = 0
    /\ model_loaded \in BOOLEAN
    /\ api_request = <<>>
    /\ api_fault = "none"
    /\ api_response = NoResponse
    /\ setup_pc = "none"
    /\ setup_env = GoodEnv
    /\ mlflow_process = "None"
    /\ api_process = "None"
    /\ exit_code = "none"

ApiNext ==
    \/ \E review \in ReviewTexts : PredictEmpty(review)
    \/ \E review \in ReviewTexts : PredictFails(review)
    \/ \E review \in ReviewTexts : PredictStoreFails(review)
    \/ \E review \in ReviewTexts : Predict(review)
    \/ GetStats
    \/ GetStatsFails

ApiSpec == ApiInit /\ [][ApiNext]_vars

\* ---------------------------------------------------------------------
\* main of the setup script: cleanup, four checks, the two servers, the
\* tests, then waiting for Ctrl+C.  What each step finds on the machine is
\* fixed when the script starts (setup_env).  A process handle is "None",
\* "running" or "terminated".

SetupEnvs == [dependencies : BOOLEAN, mongodb : BOOLEAN, mlflow : BOOLEAN,
              model : BOOLEAN, mlflow_popen : BOOLEAN, api_popen : BOOLEAN]

\* what the setup script does not touch
notSetupVars == <<results_count, result_records, incoming_docs,
                  incoming_count, lambda_clients_open, now, expected_count,
                  timeout, pc, other, sessionLocals, mainLocals, lambdaVars,
                  apiVars>>

\* cleanup_previous_setup(): returns True whatever happens
CleanupPreviousSetup ==
    /\ setup_pc = "cleanup_previous_setup"
    /\ setup_pc' = "check_dependencies"
    /\ UNCHANGED <<setup_env, mlflow_process, api_process, exit_code>>
    /\ UNCHANGED notSetupVars

\* if not check_dependencies(): sys.exit(1)
CheckDependencies ==
    /\ setup_pc = "check_dependencies"
    /\ setup_pc' = IF setup_env.dependencies THEN "check_mongodb" ELSE "exited"
    /\ exit_code' = IF setup_env.dependencies THEN exit_code ELSE "1"
    /\ UNCHANGED <<setup_env, mlflow_process, api_process>>
    /\ UNCHANGED notSetupVars

\* if not check_mongodb(): sys.exit(1)
CheckMongodb ==
    /\ setup_pc = "check_mongodb"
    /\ setup_pc' = IF setup_env.mongodb THEN "setup_mlflow" ELSE "exited"
    /\ exit_code' = IF setup_env.mongodb THEN exit_code ELSE "1"
    /\ UNCHANGED <<setup_env, mlflow_process, api_process>>
    /\ UNCHANGED notSetupVars

\* if not setup_mlflow(): sys.exit(1)
SetupMlflow ==
    /\ setup_pc = "setup_mlflow"
    /\ setup_pc' = IF setup_env.mlflow THEN "load_and_register_model"
                   ELSE "exited"
    /\ exit_code' = IF setup_env.mlflow THEN exit_code ELSE "1"
    /\ UNCHANGED <<setup_env, mlflow_process, api_process>>
    /\ UNCHANGED notSetupVars

\* if not load_and_register_model(): sys.exit(1)
LoadAndRegisterModel ==
    /\ setup_pc = "load_and_register_model"
    /\ setup_pc' = IF setup_env.model THEN "start_mlflow_server" ELSE "exited"
    /\ exit_code' = IF setup_env.model THEN exit_code ELSE "1"
    /\ UNCHANGED <<setup_env, mlflow_process, api_process>>
    /\ UNCHANGED notSetupVars

\* mlflow_process = start_mlflow_server(): the Popen object, whatever the
\* health request says, or None when Popen raises; None: sys.exit(1)
StartMlflowServer ==
    /\ setup_pc = "start_mlflow_server"
    /\ mlflow_process' = IF setup_env.mlflow_popen THEN "running" ELSE "None"
    /\ setup_pc' = IF setup_env.mlflow_popen THEN "start_api_server"
                   ELSE "exited"
    /\ exit_code' = IF setup_env.mlflow_popen THEN exit_code ELSE "1"
    /\ UNCHANGED <<setup_env, api_process>>
    /\ UNCHANGED notSetupVars

\* api_process = start_api_server(); None: mlflow_process.terminate(),
\* sys.exit(1)
StartApiServer ==
    /\ setup_pc = "start_api_server"
    /\ api_process' = IF setup_env.api_popen THEN "running" ELSE "None"
    /\ mlflow_process' = IF setup_env.api_popen THEN mlflow_process
                         ELSE "terminated"
    /\ setup_pc' = IF setup_env.api_popen THEN "run_tests" ELSE "exited"
    /\ exit_code' = IF setup_env.api_popen THEN exit_code ELSE "1"
    /\ UNCHANGED setup_env
    /\ UNCHANGED notSetupVars

\* run_tests(): every failure inside is caught and logged
RunTests ==
    /\ setup_pc = "run_tests"
    /\ setup_pc' = "wait"
    /\ UNCHANGED <<setup_env, mlflow_process, api_process, exit_code>>
    /\ UNCHANGED notSetupVars

\* Ctrl+C inside the final try: both processes are terminated, main returns
KeyboardInterruptInLoop ==
    /\ setup_pc = "wait"
    /\ mlflow_process' = "terminated"
    /\ api_process' = "terminated"
    /\ setup_pc' = "exited"
    /\ exit_code' = "0"
    /\ UNCHANGED setup_env
    /\ UNCHANGED notSetupVars

\* Ctrl+C before the final try (during a check, a time.sleep of a start
\* function, run_tests): KeyboardInterrupt is not an Exception, no except
\* clause of the script catches it and the interpreter exits
KeyboardInterruptBeforeLoop ==
    /\ setup_pc \notin {"none", "wait", "exited"}
    /\ setup_pc' = "exited"
    /\ exit_code' = "KeyboardInterrupt"
    /\ UNCHANGED <<setup_env, mlflow_process, api_process>>
    /\ UNCHANGED notSetupVars

SetupInit ==
    /\ PipelineIdle
    /\ result_records = EmptyBag
    /\ incoming_docs = [d \in DocIds |-> NoDoc]
    /\ mongodb_uri_set = TRUE
    /\ lambda_event = NoEvent
    /\ lambda_fault = "none"
    /\ lambda_status = 0
    /\ lambda_calls = 0
    /\ model_loaded = FALSE
    /\ api_request = <<>>
    /\ api_fault = "none"
    /\ api_response = NoResponse
    /\ setup_pc = "cleanup_previous_setup"
    /\ setup_env \in SetupEnvs
    /\ mlflow_process = "None"
    /\ api_process = "None"
    /\ exit_code = "none"

SetupNext ==
    \/ CleanupPreviousSetup
    \/ CheckDependencies
    \/ CheckMongodb
    \/ SetupMlflow
    \/ LoadAndRegisterModel
    \/ StartMlflowServer
    \/ StartApiServer
    \/ RunTests
    \/ KeyboardInterruptInLoop
    \/ KeyboardInterruptBeforeLoop

SetupSpec == SetupInit /\ [][SetupNext]_vars

\* ---------------------------------------------------------------------
\* C1: the call returns Completed exactly when some poll, entered while
\* the loop condition held, read a count with count - baseline >=
\* expected; it never returns TimedOut after such a poll.
C1_CompletedIffObserved ==
    /\ (outcome.kind = "Completed") <=> observed
    /\ outcome.kind = "TimedOut" => ~observed

C1_Witness ==
    /\ outcome.kind = "Completed"
    /\ observed
    /\ sleeps > 0
    /\ expected_count > 0

\* C2: whenever every query succeeds and the store never reaches
\* baseline + expected, the call ends by returning TimedOut with a
\* bound new_results < expected, for every timeout including 0; it never
\* ends by raising.
C2_TimeoutIsReturned ==
    (pc = "done" /\ queries_failed = 0 /\ ~reached) =>
        /\ outcome.kind = "TimedOut"
        /\ new_results_bound
        /\ outcome.count < expected_count

\* C3: a session none of whose count queries succeeded ends Raised with
\* the query error as its cause and never TimedOut; a session whose
\* queries all succeeded never ends with the query error.
C3_StoreUnavailableDistinct ==
    pc = "done" =>
        /\ (queries_ok = 0 /\ queries_failed > 0) =>
               (outcome.kind = "Raised" /\ outcome.cause = "StoreQueryError")
        /\ outcome.kind = "TimedOut" => queries_ok > 0
        /\ queries_failed = 0 => outcome.cause # "StoreQueryError"

C3_Witness ==
    /\ pc = "done"
    /\ queries_ok = 0
    /\ queries_failed > 0
    /\ outcome.kind = "Raised"
    /\ outcome.cause = "StoreQueryError"

\* C4: a failed count query is retried, so a session is aborted with the
\* query error only after more than one query has failed.
C4_FailedQueryRetried ==
    (outcome.kind = "Raised" /\ outcome.cause = "StoreQueryError") =>
        queries_failed > 1

\* C5: with expected_count = 0 and a store that answers, the call never
\* sleeps and ends Completed reporting 0, for every timeout and every
\* store state.
C5_ZeroExpectedImmediate ==
    (expected_count = 0 /\ queries_failed = 0) =>
        /\ sleeps = 0
        /\ pc = "done" => (outcome.kind = "Completed" /\ outcome.count = 0)

\* C6: across successive polls of one session (with a valid, non-negative
\* expected_count) the reported new_results never decreases and is never
\* negative.
C6_NewCountClamped ==
    [][expected_count >= 0 =>
          /\ new_results_bound' => new_results' >= 0
          /\ (new_results_bound /\ new_results_bound') => new_results' >= new_results]_vars

\* C7: a negative expected_count is rejected before any poll: such a
\* session runs no poll and no sleep and never ends Completed.
C7_NegativeExpectedRejected ==
    expected_count < 0 =>
        /\ outcome.kind # "Completed"
        /\ ~new_results_bound
        /\ sleeps = 0

\* C8: the baseline is the store count read at session start, and once
\* captured no step of the session (poll, sleep, failed query, store
\* change) alters it.
C8_BaselineFixed ==
    [][/\ (pc = "initial_count" /\ pc' = "check") => initial_count' = results_count
       /\ (pc \notin {"start", "initial_count"}) => initial_count' = initial_count]_vars

C8_Witness ==
    /\ pc = "done"
    /\ queries_ok > 2
    /\ sleeps > 1
    /\ results_count < initial_count

\* C9: a poll whose query returns sets new_results to the store count it
\* read minus the baseline, and returns Completed iff that difference is
\* >= expected_count.
C9_PollComputes ==
    [][(pc = "poll" /\ queries_ok' = queries_ok + 1) =>
          /\ current_count' = results_count
          /\ new_results' = results_count - initial_count
          /\ new_results_bound'
          /\ (outcome'.kind = "Completed" /\ pc' = "done")
                <=> (results_count - initial_count >= expected_count)
          /\ (pc' = "sleep" /\ outcome' = outcome)
                <=> (results_count - initial_count < expected_count)]_vars

C9_Witness ==
    /\ pc = "sleep"
    /\ new_results_bound
    /\ new_results < 0
    /\ initial_count > 0

\* C10 (as the claim states it): no sleep is started once the deadline
\* has elapsed, and the call lasts at most timeout + one poll interval.
C10_Original ==
    /\ pc = "sleep" => Elapsed < timeout
    /\ pc = "done" => Elapsed <= timeout + PollInterval

\* C10 (amended): the call always ends; no poll is started once the
\* deadline has elapsed, a sleep starts less than one query latency after
\* the deadline, and the call lasts less than timeout + one query latency
\* + one poll interval.
C10_Terminates ==
    /\ <>(pc = "done")
    /\ [](/\ pc = "poll" => Elapsed < timeout
          /\ pc = "sleep" => Elapsed < timeout + MaxLatency
          /\ Elapsed < timeout + MaxLatency + PollInterval)

C10_Witness ==
    /\ pc = "done"
    /\ outcome.kind = "TimedOut"
    /\ sleeps > 1
    /\ Elapsed > timeout + PollInterval

\* C11: whether the loop goes on is decided by elapsed wall-clock time
\* alone: leaving the loop test, the next poll starts iff
\* time.time() - start_time < timeout, however many polls were made.
C11_DeadlineIsWallClock ==
    [][(pc = "check" /\ pc' # "check") =>
          /\ (pc' = "poll") <=> (now - start_time < timeout)
          /\ (pc' = "done") <=> (now - start_time >= timeout)]_vars

C11_Witness ==
    /\ pc = "done"
    /\ outcome.kind = "TimedOut"
    /\ timeout >= PollInterval + PollInterval
    /\ sleeps = 1

\* C12: a TimedOut outcome reports the number of new records the store
\* holds at the deadline, never a smaller value from an earlier poll.
C12_TimedOutReportsStoreAtDeadline ==
    outcome.kind = "TimedOut" => outcome.count >= results_count - initial_count

\* C13: a Completed outcome reports exactly expected_count, also when the
\* poll that completes the session read more new records than expected.
C13_CompletedReportsExpected ==
    outcome.kind = "Completed" => outcome.count = expected_count

C13_Witness ==
    /\ outcome.kind = "Completed"
    /\ expected_count > 0
    /\ sleeps > 0
    /\ new_results > expected_count

\* C14: a poll that reads the same store count as the poll before it
\* yields the same new_results and the same done value (not done).
C14_PollIdempotent ==
    [][(pc = "poll" /\ queries_ok' = queries_ok + 1 /\ new_results_bound
        /\ results_count = current_count) =>
          /\ new_results' = new_results
          /\ pc' = "sleep"
          /\ outcome' = outcome]_vars

C14_Witness ==
    /\ pc = "sleep"
    /\ repeat_polls > 0
    /\ new_results > 0

\* C15: once cancellation has been signalled the loop starts no further
\* poll: the next loop test ends the call.
C15_CancelStopsLoop ==
    [][(cancelled /\ pc = "check") => pc' # "poll"]_vars

\* C17: no step of a watch session changes the result store: a step that
\* changes the store count is a step of another actor and leaves the
\* session where it was.
C17_WatcherReadsOnly ==
    [][results_count' # results_count =>
          UNCHANGED <<pc, now, start_time, initial_count, current_count,
                      new_results, new_results_bound, outcome, queries_ok,
                      queries_failed, sleeps>>]_vars

C17_Witness ==
    /\ pc = "done"
    /\ outcome.kind = "TimedOut"
    /\ sleeps > 0
    /\ own_results = 0
    /\ foreign_results = 0
    /\ ~deleted
    /\ results_count = initial_count
    /\ results_count > 0

\* C19: while the store is append-only, a poll counts the records of
\* unrelated writers together with the Lambda's: new_results is their sum
\* and the session completes iff the sum reaches expected_count.
C19_ForeignRecordsCount ==
    [][(pc = "poll" /\ queries_ok' = queries_ok + 1 /\ ~deleted) =>
          /\ new_results' = own_results + foreign_results
          /\ (outcome'.kind = "Completed")
                <=> (own_results + foreign_results >= expected_count)]_vars

C19_Witness ==
    /\ outcome.kind = "Completed"
    /\ ~deleted
    /\ expected_count > 0
    /\ foreign_results > 0
    /\ own_results < expected_count

\* C18: two concurrent sessions do not interfere: a step of one leaves the
\* other's baseline, new_results and outcome unchanged, and each poll
\* computes new_results and completion from its own session's baseline and
\* expected count.
C18_SessionsIndependent ==
    [][/\ other' # other =>
             UNCHANGED <<pc, initial_count, current_count, new_results,
                         new_results_bound, outcome>>
       /\ <<pc, initial_count, current_count, new_results,
            new_results_bound, outcome>>' #
          <<pc, initial_count, current_count, new_results,
            new_results_bound, outcome>> => other' = other
       /\ (pc = "poll" /\ queries_ok' = queries_ok + 1) =>
             /\ new_results' = results_count - initial_count
             /\ (outcome'.kind = "Completed")
                   <=> (results_count - initial_count >= expected_count)
       /\ (other.pc = "poll" /\ other'.pc \in {"sleep", "done"}
           /\ other'.outcome.kind # "Raised") =>
             /\ other'.new_results = results_count - other.initial_count
             /\ other'.initial_count = other.initial_count
             /\ (other'.outcome.kind = "Completed")
                   <=> (results_count - other.initial_count >= other.expected_count)]_vars

C18_Witness ==
    /\ pc = "done"
    /\ other.pc = "done"
    /\ initial_count # other.initial_count
    /\ expected_count = other.expected_count
    /\ outcome.kind = "Completed"
    /\ other.outcome.kind = "TimedOut"

\* C16: every MongoDB client opened for a run is closed when the run is
\* over: none of the test process's clients is open after main, and no
\* Lambda invocation leaves a client open, whether it returned or raised.
C16_ClientsClosed ==
    /\ main_pc = "exited" => clients_open = 0
    /\ lambda_clients_open = 0

\* C20: when the producer loop is over, insert_one has been called exactly
\* once for every sample review, in list order, whichever calls failed.
C20_OneInsertPerReview ==
    /\ main_pc \in {"insert", "gap", "monitor_call", "monitoring", "display"} =>
          /\ \A k \in 1..Len(insert_log) : insert_log[k] = k
          /\ Len(insert_log) <= NumSampleReviews
    /\ main_pc \in {"monitor_call", "monitoring", "display"} =>
          Len(insert_log) = NumSampleReviews

C20_Witness ==
    /\ main_pc = "monitor_call"
    /\ Len(insert_log) = NumSampleReviews
    /\ Len(test_review_ids) > 0
    /\ Len(test_review_ids) < NumSampleReviews

C22_PipelineSucceeds ==
    (main_pc = "exited" /\ pending = 0) =>
        /\ outcome.kind = "Completed"
        /\ report = "success"

\* C23: the expected count handed to monitor_results is the number of
\* inserts the store acknowledged: it equals the number of identifiers
\* collected and the growth of incoming_reviews, a failed insert is
\* skipped without ending the loop, and the count lies between 0 and the
\* number of sample reviews.
C23_ExpectedIsAcknowledged ==
    main_pc \in {"monitoring", "display"} =>
        /\ expected_count = Len(test_review_ids)
        /\ expected_count = incoming_count - initial_incoming
        /\ expected_count \in 0..NumSampleReviews
        /\ Len(insert_log) = NumSampleReviews

C23_Witness ==
    /\ main_pc = "monitoring"
    /\ expected_count = 1
    /\ Len(insert_log) = NumSampleReviews
    /\ test_review_ids = <<NumSampleReviews>>
    /\ initial_incoming > 0

\* C24: with an append-only store, the count main read before inserting
\* is never above the baseline of monitor_results, and after the call
\* returned True the final summary has final_results - initial_results
\* >= the number of acknowledged inserts.
C24_SummaryCoversInserts ==
    /\ (main_pc = "monitoring" /\ queries_ok > 0) =>
          initial_results <= initial_count
    /\ report \in {"success", "some_missing"} =>
          final_results - initial_results >= Len(test_review_ids)

C24_Witness ==
    /\ main_pc = "exited"
    /\ report = "some_missing"
    /\ Len(test_review_ids) = NumSampleReviews
    /\ initial_results < initial_count
    /\ final_results - initial_results > Len(test_review_ids)

\* C25: lambda_handler never raises: every invocation returns statusCode
\* 200 or 500; it returns 200 only after exactly one result record, for
\* the event's document, was inserted; for a malformed event, a failed
\* SageMaker call or an unset MONGODB_URI it returns 500 and the store is
\* unchanged.
C25_HandlerReturnsStatus ==
    [][lambda_calls' = lambda_calls + 1 =>
          /\ lambda_status' \in {200, 500}
          /\ lambda_status' = 200 =>
                /\ BagCardinality(result_records') =
                       BagCardinality(result_records) + 1
                /\ results_count' = results_count + 1
                /\ \E r \in BagToSet(result_records') :
                      /\ r.source = lambda_event'.fullDocument
                      /\ result_records' = result_records (+) SetToBag({r})
          /\ (~WellFormed(lambda_event') \/ lambda_fault' = "sagemaker"
              \/ ~mongodb_uri_set) =>
                /\ lambda_status' = 500
                /\ result_records' = result_records
                /\ results_count' = results_count]_vars

C25_Witness ==
    /\ lambda_calls = MaxInvocations
    /\ lambda_status = 200
    /\ BagCardinality(result_records) = 1
    /\ lambda_clients_open = 1

\* C26: after any sequence of invocations, the same event delivered twice
\* included, the store holds at most one record per source_document_id.
C26_OneRecordPerSource ==
    \A d \in DocIds : RecordsOf(d) <= 1

C27_PredictStoresOnSuccess ==
    [][api_response'.endpoint = "predict" =>
          /\ api_response'.status \in {200, 400, 500}
          /\ (\A i \in 1..Len(api_request') : api_request'[i] = " ") =>
                (api_response'.status = 400 /\ result_records' = result_records)
          /\ api_fault' \in {"model", "prediction"} =>
                (api_response'.status = 500 /\ result_records' = result_records)
          /\ api_response'.status # 200 =>
                (result_records' = result_records /\ results_count' = results_count)
          /\ (api_response'.status = 200 /\ <<api_request, api_response,
                                             result_records>>' #
                                           <<api_request, api_response,
                                             result_records>>) =>
                /\ BagCardinality(result_records') =
                       BagCardinality(result_records) + 1
                /\ results_count' = results_count + 1
                /\ \E i \in 1..Len(api_request') : api_request'[i] # " "]_vars

C27_Witness ==
    /\ api_response.endpoint = "predict"
    /\ api_response.status = 400
    /\ Len(api_request) = MaxReviewLen
    /\ BagCardinality(result_records) = 1

\* C28: /stats succeeds for every content of the store: unless a query of
\* the store itself fails the status is 200, and over an empty collection
\* it answers total_reviews 0, positive_percentage 0, average_confidence 0.
C28_StatsAlwaysSucceeds ==
    (api_response.endpoint = "stats" /\ api_fault # "store") =>
        /\ api_response.status = 200
        /\ result_records = EmptyBag =>
              /\ api_response.total_reviews = 0
              /\ api_response.positive_percentage = 0
              /\ api_response.average_confidence = 0

\* C29: the setup script starts no server unless the four checks
\* succeeded, starts the API server only after the MLflow server process
\* was created, and leaves no started server process running on any exit.
C29_SetupOrderAndCleanup ==
    /\ (mlflow_process # "None" \/ api_process # "None") =>
          /\ setup_env.dependencies
          /\ setup_env.mongodb
          /\ setup_env.mlflow
          /\ setup_env.model
    /\ api_process # "None" => mlflow_process # "None"
    /\ setup_pc = "exited" =>
          /\ mlflow_process # "running"
          /\ api_process # "running"

====
